---- MODULE Spec2Model ----
(***************************************************************************)
(* Website link analyzer (src/link_analyzer.py): URL normalization, link   *)
(* extraction, breadth-first page discovery and concurrent link            *)
(* validation of class WebsiteCrawler, as a state machine.                 *)
(*                                                                         *)
(* A URL is a sequence of characters.  The character "h:" stands for the   *)
(* six characters "https:", "m:" for "mailto:", "%20" for the three        *)
(* characters of a percent-encoded octet; "x" and "y" are letters (host or *)
(* path characters); "/", "#", "." and "[" are themselves.                 *)
(***************************************************************************)
EXTENDS Integers, Sequences, FiniteSets, TLC

\* None, where the value is otherwise a string
NULL == "None"

\* None, where the value is otherwise a status code
NoStatus == 0

\* None, where the value is otherwise a URL
NoUrl == <<"None">>

Letters == {"x", "y"}

\* the characters that end with the first ':' of a URL
Colons == {"h:", "m:"}

\* scheme_chars of urllib.parse, as far as the alphabet has them
SchemeChars == Letters \cup {"."}

\* what stands for an exception that urllib.parse raised (ValueError)
Raised == <<"ValueError">>

(***************************************************************************)
(* String helpers (str.find, slicing, str.split, str.join, str.rstrip).    *)
(***************************************************************************)
RECURSIVE FindFrom(_, _, _)
FindFrom(s, cs, i) ==
    IF i > Len(s) THEN 0
    ELSE IF s[i] \in cs THEN i
    ELSE FindFrom(s, cs, i + 1)

\* 1-based index of the first character of s that is in cs, 0 when none
Find(s, cs) == FindFrom(s, cs, 1)

Prefix(s, n) == SubSeq(s, 1, n)

Suffix(s, n) == SubSeq(s, n, Len(s))

\* s.split(c): the pieces of s between the occurrences of c
RECURSIVE Split(_, _)
Split(s, c) ==
    LET i == Find(s, {c})
    IN  IF i = 0 THEN <<s>>
        ELSE <<Prefix(s, i - 1)>> \o Split(Suffix(s, i + 1), c)

\* c.join(parts)
RECURSIVE Join(_, _)
Join(parts, c) ==
    IF Len(parts) = 0 THEN <<>>
    ELSE IF Len(parts) = 1 THEN parts[1]
    ELSE parts[1] \o <<c>> \o Join(Tail(parts), c)

\* s.rstrip(c): s without every trailing occurrence of c
RECURSIVE RStrip(_, _)
RStrip(s, c) ==
    IF Len(s) > 0 /\ s[Len(s)] = c THEN RStrip(Prefix(s, Len(s) - 1), c)
    ELSE s

\* filter(None, parts): the non-empty pieces
RECURSIVE FilterNonEmpty(_)
FilterNonEmpty(parts) ==
    IF Len(parts) = 0 THEN <<>>
    ELSE IF Head(parts) = <<>> THEN FilterNonEmpty(Tail(parts))
    ELSE <<Head(parts)>> \o FilterNonEmpty(Tail(parts))

(***************************************************************************)
(* urllib.parse as the normalizer and the domain test use it.              *)
(***************************************************************************)
\* the scheme of a URL whose first ':' ends the character of index i
SchemeAt(url, i) ==
    IF i = 0 THEN ""
    ELSE IF i = 1 THEN (IF url[1] = "h:" THEN "https" ELSE "mailto")
    ELSE IF url[1] \in Letters /\ \A k \in 1..(i - 1) : url[k] \in SchemeChars
    THEN "other"
    ELSE ""

\* urlsplit's scheme: the characters before the first ':' when they are all
\* scheme characters and the first is a letter.  "https" when the URL starts
\* with "h:", "mailto" when it starts with "m:", "other" for a longer scheme
\* such as "xhttps", "" for none.
UrlScheme(url) == SchemeAt(url, Find(url, Colons))

\* the URL after its scheme and ':'
AfterScheme(url) ==
    IF UrlScheme(url) = "" THEN url ELSE Suffix(url, Find(url, Colons) + 1)

\* the path and fragment of the part tl of a URL that follows its netloc
PathAndFragment(scheme, netloc, tl, f) ==
    [scheme   |-> scheme,
     netloc   |-> netloc,
     path     |-> IF f = 0 THEN tl ELSE Prefix(tl, f - 1),
     fragment |-> IF f = 0 THEN <<>> ELSE Suffix(tl, f + 1)]

\* _splitnetloc: body follows "//", its netloc ends at d, the first "/" or "#"
SplitNetloc(scheme, body, d) ==
    IF d = 0 THEN PathAndFragment(scheme, body, <<>>, 0)
    ELSE PathAndFragment(scheme, Prefix(body, d - 1), Suffix(body, d),
                         Find(Suffix(body, d), {"#"}))

\* urlsplit of the part rest of a URL that follows its scheme
SplitRest(scheme, rest) ==
    IF Len(rest) >= 2 /\ rest[1] = "/" /\ rest[2] = "/"
    THEN SplitNetloc(scheme, Suffix(rest, 3), Find(Suffix(rest, 3), {"/", "#"}))
    ELSE PathAndFragment(scheme, <<>>, rest, Find(rest, {"#"}))

\* urlparse(url, default_scheme): scheme, netloc, path and fragment
urlparse(url, default_scheme) ==
    SplitRest(IF UrlScheme(url) = "" THEN default_scheme ELSE UrlScheme(url),
              AfterScheme(url))

\* '[' in netloc (the alphabet has no ']')
HasBracket(netloc) == \E k \in 1..Len(netloc) : netloc[k] = "["

\* urlsplit raises ValueError("Invalid IPv6 URL"): '[' in the netloc without ']'
UrlsplitRaises(url) == HasBracket(urlparse(url, "").netloc)

\* urlunparse of scheme, netloc, path and fragment
urlunparse(scheme, netloc, path, fragment) ==
    LET p1 == IF netloc # <<>>
                 \/ (scheme = "https" /\ ~(Len(path) >= 2 /\ path[1] = "/" /\ path[2] = "/"))
              THEN <<"/", "/">> \o netloc
                   \o (IF path # <<>> /\ path[1] # "/" THEN <<"/">> ELSE <<>>) \o path
              ELSE path
        p2 == IF scheme = "https" THEN <<"h:">> \o p1 ELSE p1
    IN  IF fragment # <<>> THEN p2 \o <<"#">> \o fragment ELSE p2

\* base_parts: the segments of the base path without the last, unless it is empty
BaseParts(bp) == IF bp[Len(bp)] # <<>> THEN Prefix(bp, Len(bp) - 1) ELSE bp

\* segments[1:-1] = filter(None, segments[1:-1])
FilterMiddle(segs) ==
    IF Len(segs) <= 2 THEN segs
    ELSE <<segs[1]>> \o FilterNonEmpty(SubSeq(segs, 2, Len(segs) - 1))
         \o <<segs[Len(segs)]>>

\* the segments of the base path and the reference's path
Segments(bpath, path) ==
    IF path[1] = "/" THEN Split(path, "/")
    ELSE FilterMiddle(BaseParts(Split(bpath, "/")) \o Split(path, "/"))

\* the for loop that resolves the '.' and '..' segments into resolved_path
RECURSIVE RemoveDots(_, _)
RemoveDots(segments, resolved_path) ==
    IF segments = <<>> THEN resolved_path
    ELSE IF Head(segments) = <<".", ".">>
    THEN RemoveDots(Tail(segments),
                    IF resolved_path = <<>> THEN <<>>
                    ELSE Prefix(resolved_path, Len(resolved_path) - 1))
    ELSE IF Head(segments) = <<".">> THEN RemoveDots(Tail(segments), resolved_path)
    ELSE RemoveDots(Tail(segments), Append(resolved_path, Head(segments)))

\* resolved_path, with the empty segment added after a last '.' or '..'
ResolvedPath(segments) ==
    IF segments[Len(segments)] \in {<<".">>, <<".", ".">>}
    THEN Append(RemoveDots(segments, <<>>), <<>>)
    ELSE RemoveDots(segments, <<>>)

\* '/'.join(resolved_path) or '/'
JoinedOrRoot(joined) == IF joined = <<>> THEN <<"/">> ELSE joined

\* urljoin once base and url are parsed into b and u
JoinParsed(b, u, url) ==
    IF u.scheme # b.scheme \/ u.scheme \in {"other", "mailto"} THEN url
    ELSE IF u.netloc # <<>>
    THEN urlunparse(u.scheme, u.netloc, u.path, u.fragment)
    ELSE IF u.path = <<>>
    THEN urlunparse(u.scheme, b.netloc, b.path, u.fragment)
    ELSE urlunparse(u.scheme, b.netloc,
                    JoinedOrRoot(Join(ResolvedPath(Segments(b.path, u.path)), "/")),
                    u.fragment)

\* urlparse(url, bscheme) of urljoin
JoinWithBase(b, url) == JoinParsed(b, urlparse(url, b.scheme), url)

\* urljoin(base, url), Raised when urlparse of base or of url raises
urljoin(base, url) ==
    IF base = <<>> THEN url
    ELSE IF url = <<>> THEN base
    ELSE IF UrlsplitRaises(base) \/ UrlsplitRaises(url) THEN Raised
    ELSE JoinWithBase(urlparse(base, ""), url)

(***************************************************************************)
(* WebsiteCrawler._normalize_url                                           *)
(***************************************************************************)
\* urllib.parse.unquote, which the code does not call: "%20" becomes a space
Unquote(s) == [k \in 1..Len(s) |-> IF s[k] = "%20" THEN " " ELSE s[k]]

\* mutant: the result is percent-decoded
WithAnchorUnquoted(url, absolute_url, anchor) ==
    IF absolute_url = Raised THEN url
    ELSE RStrip(Unquote(IF anchor # <<>> THEN absolute_url \o <<"#">> \o anchor
                        ELSE absolute_url), "/")

\* absolute_url with the anchor added back if there was one
AddAnchor(absolute_url, anchor) ==
    IF anchor # <<>> THEN absolute_url \o <<"#">> \o anchor ELSE absolute_url

\* the try block once url and anchor are split: url is the part before '#';
\* the except clause returns that url
WithAnchor(url, absolute_url, anchor) ==
    IF absolute_url = Raised THEN url
    ELSE RStrip(AddAnchor(absolute_url, anchor), "/")

\* url, anchor = url.split('#', 1) at the '#' of index i, then urljoin
SplitAnchor(url, base_url, i) ==
    IF i = 0 THEN WithAnchor(url, urljoin(base_url, url), <<>>)
    ELSE WithAnchor(Prefix(url, i - 1), urljoin(base_url, Prefix(url, i - 1)),
                    Suffix(url, i + 1))

normalize_url(url, base_url) == SplitAnchor(url, base_url, Find(url, {"#"}))

(***************************************************************************)
(* url_pattern of extract_links_from_page and url_pattern.findall: a text  *)
(* is a sequence of characters, " " is whitespace.  The match is exact for  *)
(* a text that has no "%20" and has "h:" only at its start or after        *)
(* whitespace (a match never ends inside one of these characters then).    *)
(*   https?://[^\s<>"{}|\\^`\[\]()]+(?:\([^\s)]*\))*[^\s<>"{}|\\^`\[\]().,;:!?]    *)
(***************************************************************************)
\* the characters of the alphabet that the first class of the pattern excludes
PatternExcluded == {" ", "(", ")", "["}

\* the sentence punctuation that the last class excludes as well; "h:" and
\* "m:" end with ':'
Punctuation == {".", ",", "h:", "m:"}

\* [^\s<>"{}|\\^`\[\]()]
IsBodyChar(c) == c \notin PatternExcluded

\* [^\s<>"{}|\\^`\[\]().,;:!?]
IsFinalChar(c) == c \notin PatternExcluded \cup Punctuation

\* the number of characters from index q on that the first class matches
RECURSIVE BodyRun(_, _)
BodyRun(text, q) ==
    IF q > Len(text) \/ ~IsBodyChar(text[q]) THEN 0 ELSE 1 + BodyRun(text, q + 1)

\* [^\s)]*\) from index r: the index after the ')', 0 without a match
RECURSIVE CloseParen(_, _)
CloseParen(text, r) ==
    IF r > Len(text) \/ text[r] = " " THEN 0
    ELSE IF text[r] = ")" THEN r + 1
    ELSE CloseParen(text, r + 1)

\* \([^\s)]*\) at index q: the index after the group, 0 without a match
GroupEnd(text, q) ==
    IF q <= Len(text) /\ text[q] = "(" THEN CloseParen(text, q + 1) ELSE 0

\* (?:\([^\s)]*\))* and the last class at index q, as many groups as
\* possible first: the index after the match, 0 without a match
RECURSIVE GroupsThenFinal(_, _)
GroupsThenFinal(text, q) ==
    IF GroupEnd(text, q) # 0 /\ GroupsThenFinal(text, GroupEnd(text, q)) # 0
    THEN GroupsThenFinal(text, GroupEnd(text, q))
    ELSE IF q <= Len(text) /\ IsFinalChar(text[q]) THEN q + 1
    ELSE 0

\* the first class taking n characters from index q, the longest n first
RECURSIVE MatchBody(_, _, _)
MatchBody(text, q, n) ==
    IF n = 0 THEN 0
    ELSE IF GroupsThenFinal(text, q + n) # 0 THEN GroupsThenFinal(text, q + n)
    ELSE MatchBody(text, q, n - 1)

\* the pattern at index i: the index after the match, 0 without a match
MatchAt(text, i) ==
    IF i + 2 <= Len(text) /\ text[i] = "h:" /\ text[i + 1] = "/" /\ text[i + 2] = "/"
    THEN MatchBody(text, i + 3, BodyRun(text, i + 3))
    ELSE 0

\* the matches from index i on, left to right without overlap
RECURSIVE FindAllFrom(_, _)
FindAllFrom(text, i) ==
    IF i > Len(text) THEN <<>>
    ELSE IF MatchAt(text, i) # 0
    THEN <<SubSeq(text, i, MatchAt(text, i) - 1)>> \o FindAllFrom(text, MatchAt(text, i))
    ELSE FindAllFrom(text, i + 1)

\* url_pattern.findall(text_content)
findall(text) == FindAllFrom(text, 1)

\* all sequences over S of length at most n
RECURSIVE SeqsUpTo(_, _)
SeqsUpTo(S, n) ==
    IF n = 0 THEN {<<>>}
    ELSE LET shorter == SeqsUpTo(S, n - 1)
         IN  shorter \cup {Append(q, e) : q \in {r \in shorter : Len(r) = n - 1}, e \in S}

\* the elements of a sequence
Range(q) == {q[i] : i \in 1..Len(q)}

(***************************************************************************)
(* Bounds of the model and the inputs the environment draws from.          *)
(***************************************************************************)
MaxPages == 2
MaxWorkers == 2
MaxElems == 2
MaxText == 5
MaxLen == 4

\* the site under analysis is https://x
SiteOrigin == <<"h:", "/", "/", "x">>

\* base_url as handed to the constructor
BaseUrlArgs == {SiteOrigin, SiteOrigin \o <<"/">>}

\* an external site
OtherOrigin == <<"h:", "/", "/", "y">>

\* href/src values found in the markup of the site's pages; the last is
\* mailto:x, a reference of a scheme without host
Hrefs == {<<"x">>, <<"/", "x", "/">>, <<"y">>, OtherOrigin, <<"m:", "x">>}

\* the texts of the site's pages: none, "https://x/y. " and "https://y/"
Texts == {<<>>, SiteOrigin \o <<"/", "y", ".", " ">>, OtherOrigin \o <<"/">>}

\* an element: raises tells whether processing it raises an exception in the
\* body of the loop over the elements
ElementSet ==
    {[tag |-> "a", attr |-> "href", value |-> h, text |-> <<>>, raises |-> FALSE] :
        h \in Hrefs}

\* <a href="y"> whose processing raises
FaultyElement ==
    [tag |-> "a", attr |-> "href", value |-> <<"y">>, text |-> <<>>, raises |-> TRUE]

\* a page's markup: its elements in document order, and its text
Markups ==
    {[elements |-> es, text |-> t] : es \in SeqsUpTo(ElementSet, MaxElems), t \in Texts}

\* the markups of a two-page site (https://x and https://x/x) that links to
\* one external site: the site of the runs that go on to check the links
SmallSiteMarkups ==
    {m \in Markups :
        /\ \A k \in 1..Len(m.elements) : m.elements[k].value \in {<<"x">>, OtherOrigin}
        /\ m.text \in {<<>>, OtherOrigin \o <<"/">>}}

\* the pages of the site
SitePages == {SiteOrigin, SiteOrigin \o <<"/", "x">>, SiteOrigin \o <<"/", "y">>}

\* the two-page site: each page can have any of its markups
SmallSite == [u \in SitePages |-> SmallSiteMarkups]

\* the larger site: each page can have any markup
LargeSite == [u \in SitePages |-> Markups]

\* the page budget of the crawls of the deep site
MaxDeepPages == 5

\* the markup of a page whose elements are <a href> with these values
PageOf(hrefs) ==
    [elements |-> [k \in 1..Len(hrefs) |->
                      [tag |-> "a", attr |-> "href", value |-> hrefs[k], text |-> <<>>,
                       raises |-> FALSE]],
     text |-> <<>>]

\* a site of six pages: https://x links to /x and /y, /x to /x/x, /y to /y/x
\* and /x, /y/x to /y/y; so /x/x is two links from the base URL and /y/y
\* three
DeepSite ==
    (SiteOrigin :> {PageOf(<<<<"/", "x">>, <<"/", "y">>>>)})
    @@ (SiteOrigin \o <<"/", "x">> :> {PageOf(<<<<"/", "x", "/", "x">>>>)})
    @@ (SiteOrigin \o <<"/", "y">> :> {PageOf(<<<<"/", "y", "/", "x">>, <<"/", "x">>>>)})
    @@ (SiteOrigin \o <<"/", "y", "/", "x">> :> {PageOf(<<<<"/", "y", "/", "y">>>>)})
    @@ (SiteOrigin \o <<"/", "x", "/", "x">> :> {PageOf(<<>>)})
    @@ (SiteOrigin \o <<"/", "y", "/", "y">> :> {PageOf(<<>>)})

\* the markups that have the faulty element
FaultyMarkups ==
    {[elements |-> es, text |-> t] :
        es \in {q \in SeqsUpTo(ElementSet \cup {FaultyElement}, MaxElems) :
                   \E k \in 1..Len(q) : q[k].raises},
        t \in Texts}

\* markups without elements whose text has a URL with a segment in
\* parentheses: "https://x/x(x) " and "https://x/x(x)/x"
ParenMarkups ==
    {[elements |-> <<>>, text |-> SiteOrigin \o t] :
        t \in {<<"/", "x", "(", "x", ")", " ">>, <<"/", "x", "(", "x", ")", "/", "x">>}}

\* the characters of a text after the "https://" it starts with
TextChars == {"/", "x", ".", ",", " ", "(", ")"}

\* markups without elements whose text is "https://" and up to MaxText
\* characters
TextMarkups ==
    {[elements |-> <<>>, text |-> <<"h:", "/", "/">> \o t] :
        t \in SeqsUpTo(TextChars, MaxText)}

VARIABLES
    base_url,        \* self.base_url
    domain,          \* self.domain
    max_pages,       \* self.max_pages
    max_workers,     \* self.max_workers
    robots_response, \* history: what the request for robots.txt met ("off": not sent)
    robot_parser,    \* self.robot_parser; present is FALSE for None
    visited_pages,   \* self.visited_pages
    found_links,     \* self.found_links, in insertion order: <<page, links>> pairs
    link_status,     \* self.link_status: url -> Validation Result
    broken_links,    \* self.broken_links
    pc,              \* where the run is: crawl, crawled, submit, collect, done
    pages_to_visit,  \* crawl_website's queue
    pages_visited,   \* crawl_website's counter
    fetch_log,       \* history: the page requests crawl_website sent, [url, ok]
    dequeued,        \* history: the URLs crawl_website popped from its queue
    discovered,      \* history: [url, depth] in the order of first enqueuing
    all_links,       \* check_all_links' all_links keys, in insertion order
    tasks,           \* the executor's futures, in the order of submission
    norm_pc,         \* a direct _normalize_url call: "off", "args", "once", "twice"
    norm_url,        \* its url argument
    norm_base,       \* its base_url argument
    norm_out,        \* what it returned
    norm_again,      \* what it returned when applied to norm_out
    ext_pc,          \* a direct extract_links_from_page call: "off", "args", "done"
    ext_page,        \* its url argument
    ext_markup,      \* its html_content argument
    ext_links        \* what it returned

cfgVars == <<base_url, domain, max_pages, max_workers, robots_response, robot_parser>>

crawlVars ==
    <<visited_pages, found_links, pages_to_visit, pages_visited, fetch_log, dequeued,
      discovered>>

normVars == <<norm_pc, norm_url, norm_base, norm_out, norm_again>>

extVars == <<ext_pc, ext_page, ext_markup, ext_links>>

vars ==
    <<cfgVars, crawlVars, link_status, broken_links, pc, all_links, tasks, normVars,
      extVars>>

(***************************************************************************)
(* WebsiteCrawler._can_fetch, _is_same_domain                              *)
(***************************************************************************)
\* what the request of RobotFileParser.read() for robots.txt can meet: a
\* document, a network error, an HTTP error status, bytes that are not UTF-8
RobotsResponses ==
    {"document", "network_error", "http_401", "http_403", "http_404", "http_503",
     "undecodable"}

\* the rule sets of a robots.txt document: the URLs it disallows
RobotsRules == {{}, {SiteOrigin \o <<"/", "x">>}}

\* self.robot_parser = None
NoParser ==
    [present |-> FALSE, disallow_all |-> FALSE, allow_all |-> FALSE,
     last_checked |-> FALSE, disallow |-> {}]

\* RobotFileParser() after set_url
NewParser == [NoParser EXCEPT !.present = TRUE]

\* _load_robots_txt: RobotFileParser.read() sets disallow_all for 401 and 403,
\* allow_all for another 4xx, nothing for 5xx, parses a document, and lets a
\* network or decoding error through to the except clause
load_robots_txt(response, rules) ==
    IF response \in {"network_error", "undecodable"} THEN NoParser
    ELSE IF response \in {"http_401", "http_403"}
    THEN [NewParser EXCEPT !.disallow_all = TRUE]
    ELSE IF response = "http_404" THEN [NewParser EXCEPT !.allow_all = TRUE]
    ELSE IF response = "http_503" THEN NewParser
    ELSE [NewParser EXCEPT !.last_checked = TRUE, !.disallow = rules]

\* _can_fetch, with RobotFileParser.can_fetch
can_fetch(url) ==
    IF ~robot_parser.present THEN TRUE
    ELSE IF robot_parser.disallow_all THEN FALSE
    ELSE IF robot_parser.allow_all THEN TRUE
    ELSE IF ~robot_parser.last_checked THEN FALSE
    ELSE url \notin robot_parser.disallow

\* mutant: only a URL whose host is the site's domain is of the same domain
is_same_domain_host_only(url) ==
    IF UrlsplitRaises(url) THEN FALSE ELSE urlparse(url, "").netloc = domain

is_same_domain(url) ==
    LET netloc == urlparse(url, "").netloc
    IN  IF UrlsplitRaises(url) THEN FALSE
        ELSE netloc = domain \/ netloc = <<>>

(***************************************************************************)
(* WebsiteCrawler.extract_links_from_page                                  *)
(***************************************************************************)
link_selectors ==
    << <<"a", "href">>, <<"link", "href">>, <<"img", "src">>, <<"script", "src">>,
       <<"iframe", "src">>, <<"frame", "src">>, <<"embed", "src">>,
       <<"object", "data">>, <<"source", "src">>, <<"video", "src">>,
       <<"audio", "src">>, <<"form", "action">>, <<"area", "href">>,
       <<"base", "href">> >>

Reference(normalized_url, url, tag, attr, text) ==
    [url         |-> normalized_url,
     source_page |-> url,
     tag         |-> tag,
     attribute   |-> attr,
     text        |-> text,
     link_type   |-> IF is_same_domain(normalized_url) THEN "internal" ELSE "external"]

\* the references of the elements of one (tag, attribute) selector
RECURSIVE TagLinks(_, _, _)
TagLinks(url, elements, sel) ==
    IF elements = <<>> THEN <<>>
    ELSE LET element == Head(elements)
             normalized_url == normalize_url(element.value, url)
             more == TagLinks(url, Tail(elements), sel)
         IN  IF element.tag = sel[1] /\ element.attr = sel[2]
                /\ element.value # <<>>
                /\ normalized_url # <<>> /\ normalized_url # url
             THEN <<Reference(normalized_url, url, sel[1], sel[2], element.text)>> \o more
             ELSE more

RECURSIVE SelectorLinks(_, _, _)
SelectorLinks(url, elements, sels) ==
    IF sels = <<>> THEN <<>>
    ELSE TagLinks(url, elements, Head(sels)) \o SelectorLinks(url, elements, Tail(sels))

\* mutant: a reference found in the text is kept when it is the page itself
RECURSIVE TextLinksKeepSelf(_, _, _)
TextLinksKeepSelf(url, text_urls, links) ==
    IF text_urls = <<>> THEN links
    ELSE TextLinksKeepSelf(url, Tail(text_urls),
             IF normalize_url(Head(text_urls), url) # <<>>
                /\ normalize_url(Head(text_urls), url)
                      \notin {links[i].url : i \in 1..Len(links)}
             THEN Append(links, Reference(normalize_url(Head(text_urls), url), url,
                                          "text", "content", Head(text_urls)))
             ELSE links)

\* mutant: a reference found in the text is not compared with those found
RECURSIVE TextLinksNoDedup(_, _, _)
TextLinksNoDedup(url, text_urls, links) ==
    IF text_urls = <<>> THEN links
    ELSE TextLinksNoDedup(url, Tail(text_urls),
             IF normalize_url(Head(text_urls), url) # <<>>
                /\ normalize_url(Head(text_urls), url) # url
             THEN Append(links, Reference(normalize_url(Head(text_urls), url), url,
                                          "text", "content", Head(text_urls)))
             ELSE links)

\* the references found in the text, appended to links
RECURSIVE TextLinks(_, _, _)
TextLinks(url, text_urls, links) ==
    IF text_urls = <<>> THEN links
    ELSE LET text_url == Head(text_urls)
             normalized_url == normalize_url(text_url, url)
             existing_urls == {links[i].url : i \in 1..Len(links)}
         IN  TextLinks(url, Tail(text_urls),
                 IF normalized_url # <<>> /\ normalized_url # url
                    /\ normalized_url \notin existing_urls
                 THEN Append(links,
                             Reference(normalized_url, url, "text", "content", text_url))
                 ELSE links)

\* the elements in the order in which the loops over link_selectors and
\* over find_all process them
RECURSIVE ProcessingOrder(_, _)
ProcessingOrder(elements, sels) ==
    IF sels = <<>> THEN <<>>
    ELSE SelectSeq(elements,
                   LAMBDA el : el.tag = Head(sels)[1] /\ el.attr = Head(sels)[2])
         \o ProcessingOrder(elements, Tail(sels))

\* the elements processed before the first one that raises
RECURSIVE BeforeRaise(_)
BeforeRaise(elements) ==
    IF elements = <<>> \/ Head(elements).raises THEN <<>>
    ELSE <<Head(elements)>> \o BeforeRaise(Tail(elements))

\* the try block and its except clause: an exception raised in the block
\* ends it, and the links appended until then are returned
extract_links_from_page(url, markup) ==
    IF \E k \in 1..Len(markup.elements) : markup.elements[k].raises
    THEN SelectorLinks(url, BeforeRaise(ProcessingOrder(markup.elements, link_selectors)),
                       link_selectors)
    ELSE TextLinks(url, findall(markup.text),
                   SelectorLinks(url, markup.elements, link_selectors))


(***************************************************************************)
(* WebsiteCrawler.__init__                                                 *)
(***************************************************************************)
NoNormalizeCall ==
    /\ norm_pc = "off"
    /\ norm_url = <<>>
    /\ norm_base = <<>>
    /\ norm_out = NoUrl
    /\ norm_again = NoUrl

NoExtractCall ==
    /\ ext_pc = "off"
    /\ ext_page = <<>>
    /\ ext_markup = [elements |-> <<>>, text |-> <<>>]
    /\ ext_links = <<>>

\* the state after construction with max_pages up to budget
InitCrawlUpTo(budget) ==
    /\ \E arg \in BaseUrlArgs :
          /\ base_url = RStrip(arg, "/")
          /\ domain = urlparse(arg, "").netloc
    /\ max_pages \in 0..budget
    /\ max_workers \in 1..MaxWorkers
    /\ \/ /\ robots_response = "off"
          /\ robot_parser = NoParser
       \/ /\ robots_response \in RobotsResponses
          /\ \E rules \in RobotsRules :
                robot_parser = load_robots_txt(robots_response, rules)
    /\ visited_pages = {}
    /\ found_links = <<>>
    /\ link_status = <<>>
    /\ broken_links = <<>>
    /\ pc = "crawl"
    /\ pages_to_visit = <<base_url>>
    /\ pages_visited = 0
    /\ fetch_log = <<>>
    /\ dequeued = <<>>
    /\ discovered = <<[url |-> base_url, depth |-> 0]>>
    /\ all_links = <<>>
    /\ tasks = <<>>
    /\ NoNormalizeCall
    /\ NoExtractCall

InitCrawl == InitCrawlUpTo(MaxPages)

\* constructed with respect_robots = False
Init == InitCrawl /\ robots_response = "off"

(***************************************************************************)
(* WebsiteCrawler.crawl_website                                            *)
(***************************************************************************)
\* mutant: the budget test lets one page too many through
crawl_continues_off_by_one == pages_to_visit # <<>> /\ pages_visited <= max_pages

\* mutant: the loop stops after the first page, whatever the budget
crawl_continues_for_one_page == pages_to_visit # <<>> /\ pages_visited < 1

\* the while condition of the crawl loop
crawl_continues == pages_to_visit # <<>> /\ pages_visited < max_pages

\* session.get can send a request only to an http(s) URL with a host
IsFetchable(url) ==
    LET p == urlparse(url, "")
    IN  ~UrlsplitRaises(url) /\ p.scheme = "https" /\ p.netloc # <<>>

\* the for loop that appends the new internal pages of links to the queue
\* mutant: a URL is appended although the queue already has it
RECURSIVE EnqueueNoQueueCheck(_, _, _)
EnqueueNoQueueCheck(links, queue, visited) ==
    IF links = <<>> THEN queue
    ELSE EnqueueNoQueueCheck(Tail(links),
                             IF Head(links).link_type = "internal"
                                /\ Head(links).url \notin visited
                                /\ is_same_domain(Head(links).url)
                             THEN Append(queue, Head(links).url) ELSE queue,
                             visited)

\* mutant: a URL is appended although it is in visited_pages
RECURSIVE EnqueueNoVisitedCheck(_, _, _)
EnqueueNoVisitedCheck(links, queue, visited) ==
    IF links = <<>> THEN queue
    ELSE EnqueueNoVisitedCheck(Tail(links),
                               IF Head(links).link_type = "internal"
                                  /\ Head(links).url \notin Range(queue)
                                  /\ is_same_domain(Head(links).url)
                               THEN Append(queue, Head(links).url) ELSE queue,
                               visited)

\* the for loop over links that appends the new internal pages to the queue
RECURSIVE Enqueue(_, _, _)
Enqueue(links, queue, visited) ==
    IF links = <<>> THEN queue
    ELSE LET link == Head(links)
             link_url == link.url
         IN  Enqueue(Tail(links),
                     IF link.link_type = "internal"
                        /\ link_url \notin visited
                        /\ link_url \notin Range(queue)
                        /\ is_same_domain(link_url)
                     THEN Append(queue, link_url) ELSE queue,
                     visited)

\* mutant: the assignment replaces the oldest page record
SetFoundAtFront(found, page, links) ==
    IF found = <<>> THEN <<<<page, links>>>> ELSE [found EXCEPT ![1] = <<page, links>>]

\* self.found_links[page] = links, a dict assignment that keeps insertion order
SetFound(found, page, links) ==
    IF \E i \in 1..Len(found) : found[i][1] = page
    THEN [i \in 1..Len(found) |->
             IF found[i][1] = page THEN <<page, links>> ELSE found[i]]
    ELSE Append(found, <<page, links>>)

\* the depth at which a URL was first enqueued
DepthOf(disc, url) == disc[CHOOSE k \in 1..Len(disc) : disc[k].url = url].depth

\* disc with the URLs of added that it does not have yet, at depth d
RECURSIVE Discover(_, _, _)
Discover(disc, added, d) ==
    IF added = <<>> THEN disc
    ELSE Discover(IF \E k \in 1..Len(disc) : disc[k].url = Head(added) THEN disc
                  ELSE Append(disc, [url |-> Head(added), depth |-> d]),
                  Tail(added), d)

\* mutant: a page whose fetch failed counts against the page budget
fetch_fails_counting_page(current_url, rest) ==
    /\ pages_to_visit' = rest
    /\ pages_visited' = pages_visited + 1
    /\ fetch_log' = Append(fetch_log, [url |-> current_url, ok |-> FALSE])
    /\ UNCHANGED <<visited_pages, found_links, discovered>>

\* the request or raise_for_status raises: the except clause logs and continues
fetch_fails(current_url, rest) ==
    /\ pages_to_visit' = rest
    /\ fetch_log' = Append(fetch_log, [url |-> current_url, ok |-> FALSE])
    /\ UNCHANGED <<visited_pages, pages_visited, found_links, discovered>>

\* the page is fetched and has this markup
fetch_succeeds(current_url, rest, markup) ==
    LET links == extract_links_from_page(current_url, markup)
        visited == visited_pages \cup {current_url}
        queue == Enqueue(links, rest, visited)
    IN  /\ visited_pages' = visited
        /\ pages_visited' = pages_visited + 1
        /\ found_links' = SetFound(found_links, current_url, links)
        /\ pages_to_visit' = queue
        /\ fetch_log' = Append(fetch_log, [url |-> current_url, ok |-> TRUE])
        /\ discovered' = Discover(discovered, SubSeq(queue, Len(rest) + 1, Len(queue)),
                                  DepthOf(discovered, current_url) + 1)

\* one iteration of the while loop, on a site that maps the URL of a page to
\* the markups the page can have
crawl_website_loop(site) ==
    /\ pc = "crawl"
    /\ crawl_continues
    /\ dequeued' = Append(dequeued, Head(pages_to_visit))
    /\ LET current_url == Head(pages_to_visit)
           rest == Tail(pages_to_visit)
       IN  IF current_url \in visited_pages \/ ~can_fetch(current_url)
           THEN \* continue
                /\ pages_to_visit' = rest
                /\ UNCHANGED <<visited_pages, pages_visited, found_links, fetch_log,
                               discovered>>
           ELSE \/ fetch_fails(current_url, rest)
                \/ /\ IsFetchable(current_url)
                   /\ \E markup \in site[current_url] :
                         fetch_succeeds(current_url, rest, markup)
    /\ UNCHANGED <<cfgVars, link_status, broken_links, pc, all_links, tasks, normVars,
                   extVars>>

\* the loop ends and crawl_website returns
crawl_website_return ==
    /\ pc = "crawl"
    /\ ~crawl_continues
    /\ pc' = "crawled"
    /\ UNCHANGED <<cfgVars, crawlVars, link_status, broken_links, all_links, tasks,
                   normVars, extVars>>

(***************************************************************************)
(* WebsiteCrawler._create_session: the transport's retry strategy          *)
(***************************************************************************)
RetryTotal == 3

status_forcelist == {429, 500, 502, 503, 504}

\* the statuses the network answers to one attempt of a request
Statuses == {200, 404, 405, 503}

\* where a redirected request ends
RedirectTarget == <<"h:", "/", "/", "y", "/", "y">>

\* failures of an attempt that the transport retries while it has budget
TransportErrors == {"Timeout", "ConnectionError", "SSLError"}

\* exceptions that end a request at once
OtherErrors == {"TooManyRedirects", "RequestException", "Exception"}

\* mutant: the budget test allows one retry too many
CanRetryOnceMore(t) == t.retries <= RetryTotal

\* the transport may retry the request of task t once more
CanRetry(t) == t.retries < RetryTotal

(***************************************************************************)
(* WebsiteCrawler.check_link_status                                        *)
(***************************************************************************)
\* result as initialised at the top of check_link_status
NewResult(url) ==
    [url |-> url, status_code |-> NoStatus, error |-> NULL,
     redirect_url |-> NoUrl, final_url |-> url]

\* a submitted call of check_link_status: st is queued, running, finished
\* (returned), raised or recorded; at is the request the code waits for;
\* sent is the history of the requests it sent with what came of each
QueuedTask(url) ==
    [url |-> url, st |-> "queued", at |-> "", retries |-> 0, sent |-> <<>>,
     result |-> NewResult(url)]

\* mutant: redirect_url is set without comparing the URLs
ResponseResultAlwaysRedirect(url, status, response_url) ==
    [url |-> url, status_code |-> status, error |-> NULL,
     redirect_url |-> response_url, final_url |-> response_url]

\* result.update(...) and the redirect test after a response
ResponseResult(url, status, response_url) ==
    [url |-> url, status_code |-> status, error |-> NULL,
     redirect_url |-> IF response_url # url THEN response_url ELSE NoUrl,
     final_url |-> response_url]

\* mutant: the handlers lack the final except Exception
ErrorTextNoCatchAll(e) ==
    IF e = "Timeout" THEN "Timeout"
    ELSE IF e \in {"ConnectionError", "SSLError"} THEN "Connection Error"
    ELSE IF e = "TooManyRedirects" THEN "Too Many Redirects"
    ELSE IF e \in {"RequestException", "RetryError"} THEN "Request Error"
    ELSE NULL

\* the except clauses in their order: Timeout, ConnectionError (SSLError is
\* one), TooManyRedirects, RequestException (RetryError is one), Exception;
\* NULL when no clause catches e
ErrorText(e) ==
    IF e = "Timeout" THEN "Timeout"
    ELSE IF e \in {"ConnectionError", "SSLError"} THEN "Connection Error"
    ELSE IF e = "TooManyRedirects" THEN "Too Many Redirects"
    ELSE IF e \in {"RequestException", "RetryError"} THEN "Request Error"
    ELSE IF e = "Exception" THEN "Unknown Error"
    ELSE NULL

\* mutant: the result of a failed check has the status 503
ErrorResultWithStatus(url, e) ==
    [NewResult(url) EXCEPT !.error = ErrorText(e), !.status_code = 503]

\* the result after one of the except clauses: only error is assigned
ErrorResult(url, e) == [NewResult(url) EXCEPT !.error = ErrorText(e)]

\* self.session.head(url, ..., verify=False)
HeadRequest == [method |-> "HEAD", verify |-> FALSE, status |-> NoStatus, exc |-> NULL]

\* self.session.get(url, ..., verify=False, stream=True)
GetRequest == [method |-> "GET", verify |-> FALSE, status |-> NoStatus, exc |-> NULL]

\* the code sends req and waits for it at position at
Issue(t, req, at) ==
    [t EXCEPT !.st = "running", !.at = at, !.retries = 0, !.sent = Append(@, req)]

\* the request in flight ended with this status and exception
Ended(t, status, exc) ==
    [t EXCEPT !.sent[Len(t.sent)].status = status, !.sent[Len(t.sent)].exc = exc]

\* check_link_status returns res
Finish(t, res) == [t EXCEPT !.st = "finished", !.at = "", !.retries = 0, !.result = res]

\* check_link_status raises
Raise(t) == [t EXCEPT !.st = "raised", !.at = "", !.retries = 0]

\* mutant: an SSL error of any request is answered with another GET
OnExceptionRetryingEverySslError(t, e, status) ==
    IF e = "SSLError" THEN Issue(Ended(t, status, e), GetRequest, "getssl")
    ELSE IF ErrorText(e) # NULL THEN Finish(Ended(t, status, e), ErrorResult(t.url, e))
    ELSE Raise(Ended(t, status, e))

\* mutant: GET is tried after any error status of HEAD
NeedsGetFallbackAnyError(t, status) == t.at = "head" /\ status >= 400

\* the HEAD response asks for the GET fallback
NeedsGetFallback(t, status) == t.at = "head" /\ status = 405

\* the current request returned a response
OnResponse(t, status, response_url) ==
    LET t1 == Ended(t, status, NULL)
    IN  IF NeedsGetFallback(t, status)
        THEN Issue(t1, GetRequest, "get405")
        ELSE Finish(t1, ResponseResult(t.url, status, response_url))

\* the current request raised e, after a response of this status if any
OnException(t, e, status) ==
    LET t1 == Ended(t, status, e)
    IN  IF t.at \in {"head", "get405"} /\ e = "SSLError"
        THEN Issue(t1, GetRequest, "getssl")
        ELSE IF ErrorText(e) # NULL
        THEN Finish(t1, ErrorResult(t.url, e))
        ELSE Raise(t1)

(***************************************************************************)
(* WebsiteCrawler.check_all_links                                          *)
(***************************************************************************)
\* every link of every page, in the order of found_links
RECURSIVE Flatten(_)
Flatten(found) ==
    IF found = <<>> THEN <<>> ELSE Head(found)[2] \o Flatten(Tail(found))

\* the keys of all_links in insertion order
RECURSIVE UniqueUrls(_, _)
UniqueUrls(links, seen) ==
    IF links = <<>> THEN seen
    ELSE UniqueUrls(Tail(links),
                    IF Head(links).url \in Range(seen) THEN seen
                    ELSE Append(seen, Head(links).url))

\* mutant: one key per link, without the test for a known URL
AllLinksKeysNoDedup(found) ==
    [k \in 1..Len(Flatten(found)) |-> Flatten(found)[k].url]

\* the keys of all_links for the links of found
AllLinksKeys(found) == UniqueUrls(Flatten(found), <<>>)

\* all_links[link_url]
link_instances(link_url) ==
    SelectSeq(Flatten(found_links), LAMBDA l : l.url = link_url)

\* mutant: only a result with an error is a broken link
IsBrokenErrorOnly(result) == result.error # NULL

\* the test of the result that makes a link a broken link
is_broken(result) ==
    \/ result.status_code = NoStatus
    \/ result.status_code >= 400
    \/ result.error # NULL

\* {**link_instance, **result}
broken_link(link_instance, result) ==
    [url          |-> result.url,
     source_page  |-> link_instance.source_page,
     tag          |-> link_instance.tag,
     attribute    |-> link_instance.attribute,
     text         |-> link_instance.text,
     link_type    |-> link_instance.link_type,
     status_code  |-> result.status_code,
     error        |-> result.error,
     redirect_url |-> result.redirect_url,
     final_url    |-> result.final_url]

\* mutant: only the instance that was probed is reported
BrokenEntriesFirstOnly(instances, result) == <<broken_link(instances[1], result)>>

\* the entries the for loop over link_instances appends for a broken link
BrokenEntries(instances, result) ==
    [k \in 1..Len(instances) |-> broken_link(instances[k], result)]

\* check_all_links is called: all_links is built and the executor created
check_all_links_begin ==
    /\ pc = "crawled"
    /\ pc' = "submit"
    /\ all_links' = AllLinksKeys(found_links)
    /\ tasks' = <<>>
    /\ pages_to_visit' = <<>>
    /\ pages_visited' = 0
    /\ fetch_log' = <<>>
    /\ dequeued' = <<>>
    /\ discovered' = <<>>
    /\ UNCHANGED <<cfgVars, visited_pages, found_links, link_status, broken_links,
                   normVars, extVars>>

\* executor.submit for the next key of all_links
executor_submit ==
    /\ pc = "submit"
    /\ Len(tasks) < Len(all_links)
    /\ tasks' = Append(tasks, QueuedTask(all_links[Len(tasks) + 1]))
    /\ UNCHANGED <<cfgVars, crawlVars, link_status, broken_links, pc, all_links,
                   normVars, extVars>>

\* the submit loop is over: as_completed starts
submit_done ==
    /\ pc = "submit"
    /\ Len(tasks) = Len(all_links)
    /\ pc' = "collect"
    /\ UNCHANGED <<cfgVars, crawlVars, link_status, broken_links, all_links, tasks,
                   normVars, extVars>>

Running == {i \in 1..Len(tasks) : tasks[i].st = "running"}

\* mutant: the pool starts a thread for every work item
WorkerFreeAlways == TRUE

\* ThreadPoolExecutor(max_workers): a worker thread is idle or can be started
WorkerFree == Cardinality(Running) < max_workers

\* mutant: the result is written under every key that is already there
StoreResultUnderEveryKey(status, link_url, result) ==
    [u \in (DOMAIN status) \cup {link_url} |-> result]

\* self.link_status[link_url] = result
StoreResult(status, link_url, result) ==
    [u \in (DOMAIN status) \cup {link_url} |->
        IF u = link_url THEN result ELSE status[u]]

\* a free worker thread takes the oldest queued work item and sends HEAD
worker_start(i) ==
    /\ pc \in {"submit", "collect"}
    /\ tasks[i].st = "queued"
    /\ \A j \in 1..(i - 1) : tasks[j].st # "queued"
    /\ WorkerFree
    /\ tasks' = [tasks EXCEPT ![i] = Issue(@, HeadRequest, "head")]
    /\ UNCHANGED <<cfgVars, crawlVars, link_status, broken_links, pc, all_links,
                   normVars, extVars>>

\* an attempt of the current request failed in a way the transport retries
\* (a status of status_forcelist, or a transport error), with budget left
transport_retry(i) ==
    /\ pc \in {"submit", "collect"}
    /\ tasks[i].st = "running"
    /\ CanRetry(tasks[i])
    /\ tasks' = [tasks EXCEPT ![i].retries = @ + 1]
    /\ UNCHANGED <<cfgVars, crawlVars, link_status, broken_links, pc, all_links,
                   normVars, extVars>>

\* the current request returns a response
request_returns(i, status, response_url) ==
    /\ pc \in {"submit", "collect"}
    /\ tasks[i].st = "running"
    /\ status \notin status_forcelist
    /\ tasks' = [tasks EXCEPT ![i] = OnResponse(@, status, response_url)]
    /\ UNCHANGED <<cfgVars, crawlVars, link_status, broken_links, pc, all_links,
                   normVars, extVars>>

\* the current request raises e: at once, or, for an error the transport
\* retries, when the retry budget is exhausted
request_raises(i, e) ==
    /\ pc \in {"submit", "collect"}
    /\ tasks[i].st = "running"
    /\ e \in OtherErrors \/ ~CanRetry(tasks[i])
    /\ tasks' = [tasks EXCEPT ![i] = OnException(@, e, NoStatus)]
    /\ UNCHANGED <<cfgVars, crawlVars, link_status, broken_links, pc, all_links,
                   normVars, extVars>>

\* the target answered a status of status_forcelist once more with the retry
\* budget exhausted: the transport raises RetryError
retries_exhausted(i, status) ==
    /\ pc \in {"submit", "collect"}
    /\ tasks[i].st = "running"
    /\ status \in status_forcelist
    /\ ~CanRetry(tasks[i])
    /\ tasks' = [tasks EXCEPT ![i] = OnException(@, "RetryError", status)]
    /\ UNCHANGED <<cfgVars, crawlVars, link_status, broken_links, pc, all_links,
                   normVars, extVars>>

\* one iteration of the as_completed loop: future.result() returns the result,
\* or raises and the except clause logs it
as_completed_next(i) ==
    /\ pc = "collect"
    /\ tasks[i].st \in {"finished", "raised"}
    /\ LET link_url == tasks[i].url
           result == tasks[i].result
       IN  IF tasks[i].st = "finished"
           THEN /\ link_status' = StoreResult(link_status, link_url, result)
                /\ broken_links' =
                     IF is_broken(result)
                     THEN broken_links \o BrokenEntries(link_instances(link_url), result)
                     ELSE broken_links
           ELSE UNCHANGED <<link_status, broken_links>>
    /\ tasks' = [tasks EXCEPT ![i] = [QueuedTask(tasks[i].url) EXCEPT !.st = "recorded"]]
    /\ UNCHANGED <<cfgVars, crawlVars, pc, all_links, normVars,
                   extVars>>

\* every future has been handled: the executor shuts down and the call returns
check_all_links_return ==
    /\ pc = "collect"
    /\ \A i \in 1..Len(tasks) : tasks[i].st = "recorded"
    /\ pc' = "done"
    /\ UNCHANGED <<cfgVars, crawlVars, link_status, broken_links, all_links, tasks,
                   normVars, extVars>>

Next ==
    \/ crawl_website_loop(SmallSite)
    \/ crawl_website_return
    \/ check_all_links_begin
    \/ executor_submit
    \/ submit_done
    \/ \E i \in 1..Len(tasks) :
          \/ worker_start(i)
          \/ transport_retry(i)
          \/ \E status \in Statuses, response_url \in {tasks[i].url, RedirectTarget} :
                request_returns(i, status, response_url)
          \/ \E e \in TransportErrors \cup OtherErrors : request_raises(i, e)
          \/ \E status \in Statuses : retries_exhausted(i, status)
          \/ as_completed_next(i)
    \/ check_all_links_return

\* crawl_website() then check_all_links(), as main() runs them
Spec == Init /\ [][Next]_vars

\* a run that only crawls, on the larger site
NextCrawl ==
    \/ crawl_website_loop(LargeSite)
    \/ crawl_website_return

SpecCrawl == InitCrawl /\ [][NextCrawl]_vars

\* the loop is sequential and every request has a timeout: an iteration that
\* can run does run
SpecCrawlFair == SpecCrawl /\ WF_vars(NextCrawl)

\* crawl_website on the deep site, constructed with respect_robots = False
InitFifo == InitCrawlUpTo(MaxDeepPages) /\ robots_response = "off"

NextFifo ==
    \/ crawl_website_loop(DeepSite)
    \/ crawl_website_return

SpecFifo == InitFifo /\ [][NextFifo]_vars

(***************************************************************************)
(* Direct calls of _normalize_url                                          *)
(***************************************************************************)
Chars == {"h:", "/", "x", "y", "#", "[", "%20", "."}

\* the pages the references are resolved against
BasePages ==
    {SiteOrigin, SiteOrigin \o <<"/", "x">>, SiteOrigin \o <<"/", "x", "/">>}

InitNorm ==
    /\ base_url = SiteOrigin
    /\ domain = <<"x">>
    /\ max_pages = 0
    /\ max_workers = 1
    /\ robots_response = "off"
    /\ robot_parser = NoParser
    /\ visited_pages = {}
    /\ found_links = <<>>
    /\ link_status = <<>>
    /\ broken_links = <<>>
    /\ pc = "off"
    /\ pages_to_visit = <<>>
    /\ pages_visited = 0
    /\ fetch_log = <<>>
    /\ dequeued = <<>>
    /\ discovered = <<>>
    /\ all_links = <<>>
    /\ tasks = <<>>
    /\ norm_pc = "args"
    /\ norm_url \in SeqsUpTo(Chars, MaxLen)
    /\ norm_base \in BasePages
    /\ norm_out = NoUrl
    /\ norm_again = NoUrl
    /\ NoExtractCall

\* _normalize_url(url, base_url)
normalize_call ==
    /\ norm_pc = "args"
    /\ norm_out' = normalize_url(norm_url, norm_base)
    /\ norm_pc' = "once"
    /\ UNCHANGED <<cfgVars, crawlVars, link_status, broken_links, pc, all_links, tasks,
                   norm_url, norm_base, norm_again, extVars>>

\* _normalize_url applied to its own result, with the same base_url
normalize_again ==
    /\ norm_pc = "once"
    /\ norm_again' = normalize_url(norm_out, norm_base)
    /\ norm_pc' = "twice"
    /\ UNCHANGED <<cfgVars, crawlVars, link_status, broken_links, pc, all_links, tasks,
                   norm_url, norm_base, norm_out, extVars>>

NextNorm == normalize_call \/ normalize_again

SpecNorm == InitNorm /\ [][NextNorm]_vars

(***************************************************************************)
(* Direct calls of extract_links_from_page                                 *)
(***************************************************************************)
InitExtractOf(markups) ==
    /\ base_url = SiteOrigin
    /\ domain = <<"x">>
    /\ max_pages = 0
    /\ max_workers = 1
    /\ robots_response = "off"
    /\ robot_parser = NoParser
    /\ visited_pages = {}
    /\ found_links = <<>>
    /\ link_status = <<>>
    /\ broken_links = <<>>
    /\ pc = "off"
    /\ pages_to_visit = <<>>
    /\ pages_visited = 0
    /\ fetch_log = <<>>
    /\ dequeued = <<>>
    /\ discovered = <<>>
    /\ all_links = <<>>
    /\ tasks = <<>>
    /\ NoNormalizeCall
    /\ ext_pc = "args"
    /\ ext_page \in BasePages
    /\ ext_markup \in markups
    /\ ext_links = <<>>

InitExtract == InitExtractOf(Markups \cup TextMarkups \cup ParenMarkups)

\* extract_links_from_page(url, html_content)
extract_call ==
    /\ ext_pc = "args"
    /\ ext_links' = extract_links_from_page(ext_page, ext_markup)
    /\ ext_pc' = "done"
    /\ UNCHANGED <<cfgVars, crawlVars, link_status, broken_links, pc, all_links, tasks,
                   normVars, ext_page, ext_markup>>

NextExtract == extract_call

SpecExtract == InitExtract /\ [][NextExtract]_vars

\* calls on the markups that have an element whose processing raises
InitFaulty == InitExtractOf(FaultyMarkups)

SpecFaulty == InitFaulty /\ [][NextExtract]_vars


(***************************************************************************)
(* Properties                                                              *)
(***************************************************************************)
\* the distinct reference URLs of the pages found
FoundUrls == {l.url : l \in Range(Flatten(found_links))}

\* the entries of broken_links for a URL
BrokenFor(u) == SelectSeq(broken_links, LAMBDA b : b.url = u)

\* the last request a task sent
LastSent(t) == t.sent[Len(t.sent)]

\* the Validation Results that exist: returned by a call, or stored
Results ==
    {tasks[i].result : i \in {k \in 1..Len(tasks) : tasks[k].st = "finished"}}
    \cup {link_status[u] : u \in DOMAIN link_status}

\* C1: during crawl_website with max_pages = N at most N pages are visited,
\* a page once visited stays visited, and no request is sent for a URL that
\* an earlier request fetched successfully.
C1_BudgetAndNoRevisit ==
    /\ Cardinality(visited_pages) <= max_pages
    /\ \A i \in 1..Len(fetch_log) :
          fetch_log[i].ok =>
             /\ fetch_log[i].url \in visited_pages
             /\ \A j \in (i + 1)..Len(fetch_log) : fetch_log[j].url # fetch_log[i].url

\* C1 witness: the budget of two pages stopped the crawl with a page pending
C1_Witness ==
    /\ pc = "crawled"
    /\ max_pages = 2
    /\ Cardinality(visited_pages) = 2
    /\ pages_to_visit # <<>>

\* C2: check_all_links starts exactly one probe task per distinct reference
\* URL (one HEAD each), and when it has returned link_status holds exactly
\* one result for each distinct reference URL, however many pages or
\* Reference records carry the URL.
C2_OneProbePerUrl ==
    /\ \A i, j \in 1..Len(tasks) : tasks[i].url = tasks[j].url => i = j
    /\ \A i \in 1..Len(tasks) :
          /\ tasks[i].url \in FoundUrls
          /\ Cardinality({k \in 1..Len(tasks[i].sent) :
                             tasks[i].sent[k].method = "HEAD"}) <= 1
    /\ pc \in {"collect", "done"} => {tasks[i].url : i \in 1..Len(tasks)} = FoundUrls
    /\ pc = "done" =>
          /\ DOMAIN link_status = FoundUrls
          /\ \A u \in FoundUrls : link_status[u].url = u

\* C2 witness: a URL carried by three Reference records on two pages has its
\* one result after check_all_links returned
C2_Witness ==
    /\ pc = "done"
    /\ \E u \in FoundUrls :
          /\ Len(link_instances(u)) >= 3
          /\ Cardinality({l.source_page : l \in Range(link_instances(u))}) = 2
          /\ u \in DOMAIN link_status

\* C3: after check_all_links, a URL whose result is broken (no status code or
\* a status code >= 400) and that occurs as k Reference records has exactly
\* k entries in broken_links, one per record with that record's source_page
\* and provenance; a URL whose result is not broken has no entry.
C3_BrokenEntriesPerInstance ==
    pc = "done" =>
       \A u \in FoundUrls \cap DOMAIN link_status :
          LET r == link_status[u]
              entries == BrokenFor(u)
              inst == link_instances(u)
          IN  IF r.status_code = NoStatus \/ r.status_code >= 400
              THEN /\ Len(entries) = Len(inst)
                   /\ \A k \in 1..Len(inst) :
                         /\ entries[k].source_page = inst[k].source_page
                         /\ entries[k].tag = inst[k].tag
                         /\ entries[k].attribute = inst[k].attribute
                         /\ entries[k].status_code = r.status_code
                         /\ entries[k].error = r.error
              ELSE entries = <<>>

\* C3 witness: a broken URL found on two pages has an entry for each page,
\* and another URL is not broken
C3_Witness ==
    /\ pc = "done"
    /\ \E u, v \in DOMAIN link_status :
          /\ link_status[u].status_code = 404
          /\ {b.source_page : b \in Range(BrokenFor(u))}
                = {SiteOrigin, SiteOrigin \o <<"/", "x">>}
          /\ link_status[v].status_code = 200
          /\ BrokenFor(v) = <<>>

\* C4: a reference is classified broken (has entries in broken_links) if and
\* only if its result has no status code or a status code >= 400.
C4_BrokenIffNoStatusOrError ==
    \A u \in DOMAIN link_status :
       (BrokenFor(u) # <<>>)
          <=> (link_status[u].status_code = NoStatus \/ link_status[u].status_code >= 400)

\* C4 witness: a 404 that is broken, next to a result without status code
\* that is broken too
C4_Witness ==
    \E u, v \in DOMAIN link_status :
       /\ link_status[u].status_code = 404
       /\ BrokenFor(u) # <<>>
       /\ link_status[v].status_code = NoStatus
       /\ link_status[v].error = "Timeout"
       /\ BrokenFor(v) # <<>>

\* C5: check_link_status never raises for a transport failure: a call whose
\* last request raised returns a result with no status code and a classified
\* error, and the other URLs of the batch are still probed and recorded.
C5_TransportFailureContained ==
    /\ \A i \in 1..Len(tasks) :
          /\ tasks[i].st # "raised"
          /\ (tasks[i].st = "finished" /\ LastSent(tasks[i]).exc # NULL) =>
                /\ tasks[i].result.status_code = NoStatus
                /\ tasks[i].result.error \in
                      {"Timeout", "Connection Error", "Too Many Redirects",
                       "Request Error", "Unknown Error"}
    /\ pc = "done" => \A i \in 1..Len(tasks) : tasks[i].url \in DOMAIN link_status

\* C5 witness: with one worker the first URL ended in an unknown exception
\* and the second was probed after it and recorded with its status
C5_Witness ==
    /\ pc = "done"
    /\ max_workers = 1
    /\ Len(all_links) = 2
    /\ link_status[all_links[1]].error = "Unknown Error"
    /\ link_status[all_links[1]].status_code = NoStatus
    /\ link_status[all_links[2]].status_code = 200

\* C6: in every Validation Result redirect_url is set exactly when final_url
\* differs from the requested url, and then equals final_url; a redirected
\* result with a status code below 400 has no entry in broken_links.
C6_RedirectRecordedNotBroken ==
    /\ \A r \in Results :
          /\ (r.redirect_url # NoUrl) <=> (r.final_url # r.url)
          /\ r.redirect_url # NoUrl => r.redirect_url = r.final_url
    /\ \A u \in DOMAIN link_status :
          (/\ link_status[u].redirect_url # NoUrl
           /\ link_status[u].status_code # NoStatus
           /\ link_status[u].status_code < 400) => BrokenFor(u) = <<>>

\* C6 witness: a stored result that was redirected with status 200 and is
\* not in broken_links
C6_Witness ==
    \E u \in DOMAIN link_status :
       /\ link_status[u].redirect_url = RedirectTarget
       /\ link_status[u].final_url # u
       /\ link_status[u].status_code = 200
       /\ BrokenFor(u) = <<>>

\* C7: the first request of a probe is a HEAD; every later request is a GET
\* sent after a HEAD response of 405 or after an SSL error; after the 405
\* fallback a recorded status code is the status of the last GET response.
C7_HeadFirstGetFallback ==
    \A i \in 1..Len(tasks) :
       LET t == tasks[i] IN
       t.sent # <<>> =>
          /\ t.sent[1].method = "HEAD"
          /\ \A k \in 2..Len(t.sent) :
                /\ t.sent[k].method = "GET"
                /\ \/ t.sent[k - 1].method = "HEAD" /\ t.sent[k - 1].status = 405
                   \/ t.sent[k - 1].exc = "SSLError"
          /\ (t.st = "finished" /\ t.sent[1].status = 405
                 /\ t.result.status_code # NoStatus) =>
                /\ LastSent(t).method = "GET"
                /\ t.result.status_code = LastSent(t).status

\* C7 witness: HEAD answered 405, the GET answered 404, and 404 is returned
C7_Witness ==
    \E i \in 1..Len(tasks) :
       /\ tasks[i].st = "finished"
       /\ Len(tasks[i].sent) = 2
       /\ tasks[i].sent[1].status = 405
       /\ tasks[i].sent[2].method = "GET"
       /\ tasks[i].sent[2].status = 404
       /\ tasks[i].result.status_code = 404

\* C8: the first request of a probe validates the certificate, and a request
\* with validation relaxed is sent only as the retry after an SSL error.
C8_VerifyUntilSslError ==
    \A i \in 1..Len(tasks) :
       LET t == tasks[i] IN
       t.sent # <<>> =>
          /\ t.sent[1].verify
          /\ \A k \in 1..Len(t.sent) :
                ~t.sent[k].verify => (k > 1 /\ t.sent[k - 1].exc = "SSLError")

\* C9: the transport retries a request at most RetryTotal times; a call whose
\* request still gets a status of status_forcelist with the budget exhausted
\* returns a result with an error and no status code (a broken link), no
\* call raises, and check_all_links returns with every URL recorded.
C9_RetryBudgetThenErrorResult ==
    [][\A i \in 1..Len(tasks') :
          /\ tasks'[i].retries <= RetryTotal
          /\ tasks'[i].st # "raised"
          /\ (/\ i <= Len(tasks)
              /\ tasks[i].st = "running"
              /\ tasks'[i].st = "finished"
              /\ LastSent(tasks'[i]).status \in status_forcelist) =>
                /\ tasks[i].retries = RetryTotal
                /\ tasks'[i].result.error # NULL
                /\ tasks'[i].result.status_code = NoStatus
                /\ is_broken(tasks'[i].result)
          /\ pc' = "done" => tasks'[i].url \in DOMAIN link_status']_vars

\* C9 witness: a call returned an error result after the target answered 503
\* to the last attempt the budget allowed
C9_Witness ==
    \E i \in 1..Len(tasks) :
       /\ tasks[i].st = "finished"
       /\ LastSent(tasks[i]).status = 503
       /\ LastSent(tasks[i]).exc = "RetryError"
       /\ tasks[i].result.error = "Request Error"
       /\ tasks[i].result.status_code = NoStatus

\* C10: _normalize_url is idempotent: applied to its own result with the same
\* base it returns that result.
C10_NormalizeIdempotent == norm_pc = "twice" => norm_again = norm_out

\* the part of a raw reference before its first '#'
BeforeAnchor(url) ==
    IF Find(url, {"#"}) = 0 THEN url ELSE Prefix(url, Find(url, {"#"}) - 1)

\* the part of a raw reference after its first '#'
AfterAnchor(url) ==
    IF Find(url, {"#"}) = 0 THEN <<>> ELSE Suffix(url, Find(url, {"#"}) + 1)

\* URL resolution fails on the raw reference
ResolutionFails(url, base) == urljoin(base, BeforeAnchor(url)) = Raised

\* the resolved URL of a raw reference, fragment included, before any
\* trailing slash is removed
Resolved(url, base) == AddAnchor(urljoin(base, BeforeAnchor(url)), AfterAnchor(url))

\* s without one trailing slash
StripOneSlash(s) ==
    IF Len(s) > 0 /\ s[Len(s)] = "/" THEN Prefix(s, Len(s) - 1) ELSE s

\* the number of percent-encoded octets of s
OctetCount(s) == Cardinality({k \in 1..Len(s) : s[k] = "%20"})

\* s has a '..' somewhere
HasDotDot(s) == \E k \in 1..(Len(s) - 1) : s[k] = "." /\ s[k + 1] = "."

\* C11: when URL resolution fails on a malformed raw reference,
\* _normalize_url returns exactly the raw string it was given, '#fragment'
\* included.
C11_MalformedReturnedUnchanged ==
    (norm_pc = "once" /\ ResolutionFails(norm_url, norm_base)) => norm_out = norm_url

\* C12: _normalize_url removes exactly one trailing slash from the resolved
\* URL: k >= 1 trailing slashes become k - 1, and a URL without a trailing
\* slash is returned unchanged.
C12_StripsOneSlash ==
    (norm_pc = "once" /\ ~ResolutionFails(norm_url, norm_base)) =>
       norm_out = StripOneSlash(Resolved(norm_url, norm_base))

HostOf(url) == urlparse(url, "").netloc

\* the References of the extract call for a URL
ExtRefs(u) == SelectSeq(ext_links, LAMBDA l : l.url = u)

\* the elements of the extract call's markup whose reference normalizes to u
TagOccurrences(u) ==
    {k \in 1..Len(ext_markup.elements) :
        /\ ext_markup.elements[k].value # <<>>
        /\ normalize_url(ext_markup.elements[k].value, ext_page) = u}

\* the normalized URLs that the pattern finds in the text of the markup
TextOccurrences ==
    {normalize_url(t, ext_page) : t \in Range(findall(ext_markup.text))}

\* C14: every Reference of extract_links_from_page has link_type internal if
\* and only if the host of its normalized URL is the site's domain or is
\* empty, and external otherwise.
C14_LinkTypeByHost ==
    ext_pc = "done" =>
       \A k \in 1..Len(ext_links) :
          /\ ext_links[k].link_type \in {"internal", "external"}
          /\ ext_links[k].link_type = "internal"
                <=> (HostOf(ext_links[k].url) = domain \/ HostOf(ext_links[k].url) = <<>>)

\* C14 witness: on site x, https://x/y is internal, https://y is external
\* and mailto:x, which has no host, is internal
C14_Witness ==
    /\ ext_pc = "done"
    /\ \E i, j \in 1..Len(ext_links) :
          /\ ext_links[i].url = SiteOrigin \o <<"/", "y">>
          /\ ext_links[i].link_type = "internal"
          /\ ext_links[j].url = OtherOrigin
          /\ ext_links[j].link_type = "external"
    /\ ext_page = SiteOrigin

\* C15: extract_links_from_page(P, markup) returns no Reference whose
\* normalized URL is P, from a tag attribute or from the text.
C15_NoSelfLink ==
    ext_pc = "done" => \A k \in 1..Len(ext_links) : ext_links[k].url # ext_page

\* C15 witness: page https://x/x whose markup has href "x", which resolves to
\* the page, and the text "https://x/y. ": only the text's URL is returned
C15_Witness ==
    /\ ext_pc = "done"
    /\ ext_page = SiteOrigin \o <<"/", "x">>
    /\ Len(ext_markup.elements) = 1
    /\ ext_markup.elements[1].value = <<"x">>
    /\ Len(ext_links) = 1
    /\ ext_links[1].tag = "text"

UrlThenPunctuation(text, k, j) ==
    /\ 4 <= k /\ k < j /\ j <= Len(text)
    /\ Prefix(text, 3) = <<"h:", "/", "/">>
    /\ \A i \in 4..k : IsBodyChar(text[i])
    /\ text[k] \notin {".", ","}
    /\ \A i \in (k + 1)..j : text[i] \in {".", ","}
    /\ j = Len(text) \/ text[j + 1] = " "

\* C17: a bare http(s) URL in the text that is followed by sentence
\* punctuation is extracted without the punctuation: the first Reference is
\* the URL (unless the URL is the page itself).
C17_TrailingPunctuationTrimmed ==
    (ext_pc = "done" /\ ext_markup.elements = <<>>) =>
       \A k, j \in 1..Len(ext_markup.text) :
          (/\ UrlThenPunctuation(ext_markup.text, k, j)
           /\ normalize_url(Prefix(ext_markup.text, k), ext_page) # ext_page) =>
             /\ ext_links # <<>>
             /\ ext_links[1].text = Prefix(ext_markup.text, k)
             /\ ext_links[1].url = normalize_url(Prefix(ext_markup.text, k), ext_page)

\* C17 for a URL of at least two characters after "https://"
TrailingPunctuationTrimmedOfLongerUrl ==
    (ext_pc = "done" /\ ext_markup.elements = <<>>) =>
       \A k, j \in 1..Len(ext_markup.text) :
          (/\ k >= 5
           /\ UrlThenPunctuation(ext_markup.text, k, j)
           /\ normalize_url(Prefix(ext_markup.text, k), ext_page) # ext_page) =>
             /\ ext_links # <<>>
             /\ ext_links[1].text = Prefix(ext_markup.text, k)
             /\ ext_links[1].url = normalize_url(Prefix(ext_markup.text, k), ext_page)

\* the ways the claim counts as a failure to fetch or parse robots.txt
RobotsFailures == {"network_error", "http_401", "http_403", "http_503", "undecodable"}

\* C18: if fetching or parsing robots.txt fails (network error, HTTP 401 or
\* 403, HTTP 5xx, undecodable document), _can_fetch is true for every URL:
\* for the base URL and every URL the crawl has pending.
C18_RobotsFailurePermissive ==
    robots_response \in RobotsFailures =>
       \A u \in {base_url} \cup Range(pages_to_visit) : can_fetch(u)

\* C19: every URL that crawl_website has pending or has sent a page request
\* for, the base URL apart, has the site's domain as its host.
C19_QueueSameDomain ==
    \A u \in Range(pages_to_visit) \cup {fetch_log[i].url : i \in 1..Len(fetch_log)} :
       u # base_url => HostOf(u) = domain

\* C20: crawl_website terminates, and when it has returned the queue is empty
\* or the number of visited pages is max_pages.
C20_CrawlTerminates ==
    /\ <>(pc = "crawled")
    /\ [](pc = "crawled" =>
            (pages_to_visit = <<>> \/ Cardinality(visited_pages) = max_pages))

\* C20 witness: the crawl returned with the queue empty after three page
\* requests, below its budget
C20_Witness ==
    /\ pc = "crawled"
    /\ pages_to_visit = <<>>
    /\ Len(fetch_log) >= 3
    /\ Cardinality(visited_pages) < max_pages

\* the number of times x occurs in the sequence q
Count(q, x) == Cardinality({k \in 1..Len(q) : q[k] = x})

\* the broken_links entries that the results stored in link_status call for
RECURSIVE ExpectedBroken(_)
ExpectedBroken(urls) ==
    IF urls = <<>> THEN <<>>
    ELSE (IF Head(urls) \in DOMAIN link_status /\ is_broken(link_status[Head(urls)])
          THEN BrokenEntries(link_instances(Head(urls)), link_status[Head(urls)])
          ELSE <<>>) \o ExpectedBroken(Tail(urls))

\* C21: during check_all_links at most max_workers probes are in flight, and
\* when check_all_links has returned every submitted probe has completed and
\* its result is recorded.
C21_BoundedParallelism ==
    /\ Cardinality(Running) <= max_workers
    /\ pc = "done" =>
          /\ Len(tasks) = Len(all_links)
          /\ \A i \in 1..Len(tasks) :
                /\ tasks[i].st = "recorded"
                /\ tasks[i].url \in DOMAIN link_status

\* C21 witness: with one worker, one probe is in flight while the other
\* submitted probe waits
C21_Witness ==
    /\ max_workers = 1
    /\ Len(tasks) = 2
    /\ tasks[1].st = "running"
    /\ tasks[2].st = "queued"
    /\ pc = "collect"

\* C22: each key of link_status is written once, with the result of the one
\* task of that URL, and is never written again; the multiset of broken_links
\* entries is the one the stored results call for, whatever the order in which
\* the probes completed and whatever max_workers.
C22_WriteOnceOrderIndependent ==
    /\ [](\A b \in Range(broken_links) \cup Range(ExpectedBroken(all_links)) :
            Count(broken_links, b) = Count(ExpectedBroken(all_links), b))
    /\ [][\A u \in DOMAIN link_status' :
            IF u \in DOMAIN link_status THEN link_status'[u] = link_status[u]
            ELSE /\ DOMAIN link_status' = (DOMAIN link_status) \cup {u}
                 /\ Cardinality({i \in 1..Len(tasks) : tasks[i].url = u}) = 1
                 /\ \E i \in 1..Len(tasks) :
                       /\ tasks[i].url = u
                       /\ tasks[i].st = "finished"
                       /\ link_status'[u] = tasks[i].result]_vars

\* C22 witness: with two workers the second URL's probe was recorded first,
\* and both URLs are broken
C22_Witness ==
    /\ pc = "done"
    /\ max_workers = 2
    /\ Len(all_links) = 2
    /\ Len(broken_links) >= 2
    /\ broken_links[1].url = all_links[2]
    /\ broken_links[Len(broken_links)].url = all_links[1]

\* C27: within one check_link_status call an SSL error is answered with at
\* most one retry: a call sends at most three requests (HEAD, 405-fallback
\* GET, SSL-retry GET), at most one of them after an SSL error, and when the
\* retry fails too the call has returned an error result.
C27_SslRetryOnce ==
    \A i \in 1..Len(tasks) :
       LET t == tasks[i] IN
       /\ Len(t.sent) <= 3
       /\ Cardinality({k \in 2..Len(t.sent) : t.sent[k - 1].exc = "SSLError"}) <= 1
       /\ \A k \in 2..Len(t.sent) :
             (t.sent[k - 1].exc = "SSLError" /\ t.sent[k].exc # NULL) =>
                /\ k = Len(t.sent)
                /\ t.st = "finished"
                /\ t.result.status_code = NoStatus
                /\ t.result.error # NULL

\* C27 witness: HEAD answered 405, the GET met an SSL error, the retry GET
\* met one too, and the call returned a connection error
C27_Witness ==
    \E i \in 1..Len(tasks) :
       /\ tasks[i].st = "finished"
       /\ Len(tasks[i].sent) = 3
       /\ tasks[i].sent[1].status = 405
       /\ tasks[i].sent[2].exc = "SSLError"
       /\ tasks[i].sent[3].exc = "SSLError"
       /\ tasks[i].result.error = "Connection Error"

\* a sequence without repeated elements
NoDuplicates(q) == \A i, j \in 1..Len(q) : i # j => q[i] # q[j]

\* the step is an iteration of the crawl loop
IsLoopStep == pc = "crawl" /\ dequeued' # dequeued

\* the iteration sent a request for the page and the request failed
FetchFailed == fetch_log' # fetch_log /\ ~fetch_log'[Len(fetch_log')].ok

\* the iteration fetched the page
FetchSucceeded == fetch_log' # fetch_log /\ fetch_log'[Len(fetch_log')].ok

\* the URLs the iteration appended to the queue
Appended == SubSeq(pages_to_visit', Len(pages_to_visit), Len(pages_to_visit'))

\* the internal references of the page the iteration fetched
InternalUrlsOfFetched ==
    {l.url : l \in {r \in Range(found_links'[Len(found_links')][2]) :
                       r.link_type = "internal"}}

\* C23: an iteration of crawl_website on a URL that robots.txt disallows, or
\* whose fetch fails, drops the URL: visited_pages, found_links and the page
\* budget stay as they were, the queue loses its head only, and the loop goes on
C23_SkippedUrlDropped ==
    [][(IsLoopStep /\ (~can_fetch(Head(pages_to_visit)) \/ FetchFailed))
           => /\ visited_pages' = visited_pages
              /\ found_links' = found_links
              /\ pages_visited' = pages_visited
              /\ pages_to_visit' = Tail(pages_to_visit)
              /\ pc' = "crawl"]_vars

\* a page was fetched after one fetch had failed and after a disallowed URL
\* had been taken from the queue
C23_Witness ==
    /\ \E i, j \in 1..Len(fetch_log) : i < j /\ ~fetch_log[i].ok /\ fetch_log[j].ok
    /\ \E k \in 1..Len(dequeued) : ~can_fetch(dequeued[k])

\* C24: the queue never has a URL twice, and an iteration that fetches a page
\* appends, once each, exactly the URLs of the internal references of the page
\* that are neither visited nor queued
C24_EnqueueNewInternalOnce ==
    /\ [](NoDuplicates(pages_to_visit))
    /\ [][(IsLoopStep /\ FetchSucceeded)
            => /\ pages_to_visit' = Tail(pages_to_visit) \o Appended
               /\ NoDuplicates(Appended)
               /\ Range(Appended) =
                      InternalUrlsOfFetched
                          \ (visited_pages' \cup Range(Tail(pages_to_visit)))]_vars

\* the second page refers to an internal URL that the first page had queued,
\* and the URL is in the queue once
C24_Witness ==
    /\ Len(found_links) = 2
    /\ \E u \in Range(pages_to_visit) :
          \A i \in 1..2 :
              \E l \in Range(found_links[i][2]) : l.url = u /\ l.link_type = "internal"

\* C26: found_links has one record for each visited page and no other, and a
\* record of found_links stays as it was written
C26_PageRecordOnce ==
    /\ []({found_links[i][1] : i \in 1..Len(found_links)} = visited_pages
           /\ Len(found_links) = Cardinality(visited_pages))
    /\ [][\A i \in 1..Len(found_links) :
              i <= Len(found_links') /\ found_links'[i] = found_links[i]]_vars

\* a second page record was written while the first one was there
C26_Witness == Len(found_links) = 2 /\ Len(found_links[1][2]) > 0

\* C25: the crawl is breadth-first: when a URL is taken from the queue, every
\* URL discovered at a smaller link depth has been taken from the queue before
C25_BreadthFirst ==
    \A j \in 1..Len(dequeued) :
        \A k \in 1..Len(discovered) :
            discovered[k].depth < DepthOf(discovered, dequeued[j])
                => \E i \in 1..(j - 1) : dequeued[i] = discovered[k].url

\* the elements whose processing does not raise
OtherElements == SelectSeq(ext_markup.elements, LAMBDA el : ~el.raises)

IsParenthesizedUrlThenSpace(text, n) ==
    /\ n = Len(text)
    /\ n >= 8
    /\ <<text[1], text[2], text[3]>> = <<"h:", "/", "/">>
    /\ text[4] \in Letters
    /\ text[n] = " "
    /\ text[n - 1] = ")"
    /\ \E k \in 6..(n - 2) :
          /\ text[k] = "("
          /\ \A i \in 4..(k - 1) : IsBodyChar(text[i]) /\ IsFinalChar(text[i])
          /\ \A i \in (k + 1)..(n - 2) : text[i] \notin {" ", ")"}

\* C29: a URL in the text that ends with a segment in parentheses and is
\* followed by whitespace is extracted with that segment
C29_ParenthesizedUrlInFull ==
    (ext_pc = "done" /\ ext_markup.elements = <<>>
     /\ IsParenthesizedUrlThenSpace(ext_markup.text, Len(ext_markup.text)))
        => \E i \in 1..Len(ext_links) :
              ext_links[i].text = SubSeq(ext_markup.text, 1, Len(ext_markup.text) - 1)

\* C30: the result of extract_links_from_page has no two equal records
C30_ResultIsSet == NoDuplicates(ext_links)

\* C31: during crawl_website no URL of the queue is in visited_pages, so the
\* URL taken from the queue is never one that was visited
C31_QueueDisjointFromVisited ==
    /\ [](Range(pages_to_visit) \cap visited_pages = {})
    /\ [][IsLoopStep => Head(pages_to_visit) \notin visited_pages]_vars

\* a page was fetched that refers to a page fetched before it, and that page
\* is not in the queue
C31_Witness ==
    \E i, j \in 1..Len(found_links) :
        /\ i < j
        /\ \E l \in Range(found_links[j][2]) :
              l.url = found_links[i][1] /\ l.link_type = "internal"
        /\ pages_to_visit # <<>>

\* C32: during crawl_website a URL is taken from the queue at most once
C32_AttemptedOnce == NoDuplicates(dequeued)

\* C33: a Validation Result has a status code or an error and not both, and
\* one with an error has the requested URL as final_url and no redirect_url
C33_StatusXorError ==
    \A r \in Results :
        /\ (r.status_code # NoStatus) # (r.error # NULL)
        /\ r.error # NULL => r.final_url = r.url /\ r.redirect_url = NoUrl

\* a check ended with a status and another with an error
C33_Witness ==
    /\ \E r \in Results : r.status_code # NoStatus
    /\ \E r \in Results : r.error # NULL

====
